---- MODULE Spec2Model ----
(***************************************************************************)
(* Model of src/src/lj_str_hash.c: the CRC32 string hash of LuaJIT         *)
(* (OpenResty branch).  The module models                                  *)
(*   - the four length-band routines, the dispatcher and the portable      *)
(*     routine, as operators that return the hash value together with the  *)
(*     list of memory reads they make;                                     *)
(*   - log2_floor and its table;                                           *)
(*   - lj_str_hash_init_random, which fills random_pos, draw by draw and   *)
(*     store by store;                                                     *)
(*   - lj_check_crc32_support, for both build targets (x64 and arm64);     *)
(*   - lj_init_strhashfn, statement by statement, run by one thread (Spec) *)
(*     or by several threads at once (SpecThreads).                        *)
(*                                                                         *)
(* A uint32_t value is a pair <<hi, lo>> of 16-bit halves, a uint64_t a    *)
(* pair <<hi32, lo32>> of such pairs: the model checker's integers are     *)
(* signed 32-bit.  Lengths, offsets and table cells stay integers; every   *)
(* length of the model is below 2^31.                                      *)
(***************************************************************************)
EXTENDS Integers, Sequences, FiniteSets, TLC

\* ------------------------------------------------------------------------
\* Bounds of the model.
\* ------------------------------------------------------------------------

\* Every length 1..128+ExtraLen is hashed, then only band edges.
ExtraLen == 40
\* Largest chunk-size order whose edge lengths (16*2^k-1, 16*2^k, 16*2^k+15)
\* are hashed; the length 2^31-1 (order 26) is always hashed as well.
MaxOrder == 25
\* Threads racing in lj_init_strhashfn under SpecThreads.
NThreads == 2
\* global_State objects of the process (one per Lua VM).
NStates == 2
\* Calls made in one run (lj_init_strhashfn calls and hash calls together).
MaxCalls == 3
\* Preemptions of a thread that stands inside the loops of
\* lj_str_hash_init_random, in one run.
MaxPreempt == 1

\* ------------------------------------------------------------------------
\* 32-bit and 64-bit unsigned arithmetic on 16-bit halves.
\* ------------------------------------------------------------------------

Half == 2 ^ 16

RECURSIVE XorN(_, _, _)
\* Bitwise exclusive or of the low n bits of a and b.
XorN(a, b, n) ==
  IF n = 0 THEN 0
  ELSE ((a + b) % 2) + 2 * XorN(a \div 2, b \div 2, n - 1)

\* Exclusive or of two 4-bit values, tabulated.
Xor4Tab == [a \in 0..15 |-> [b \in 0..15 |-> XorN(a, b, 4)]]

Xor8(a, b) ==
  (Xor4Tab[a \div 16][b \div 16] * 16) + Xor4Tab[a % 16][b % 16]

Xor16(a, b) == (Xor8(a \div 256, b \div 256) * 256) + Xor8(a % 256, b % 256)

\* (uint32_t) n for an integer 0 <= n < 2^31.
U32(n) == << n \div Half, n % Half >>

Xor32(x, y) == << Xor16(x[1], y[1]), Xor16(x[2], y[2]) >>

\* x - y modulo 2^32.
Sub32(x, y) ==
  LET lo == x[2] - y[2]
      bw == IF lo < 0 THEN 1 ELSE 0
  IN  << (x[1] - y[1] - bw + 2 * Half) % Half, (lo + Half) % Half >>

\* x + y modulo 2^32.
Add32(x, y) ==
  LET lo == x[2] + y[2]
  IN  << (x[1] + y[1] + (lo \div Half)) % Half, lo % Half >>

\* lj_rol(x, n): rotate a uint32_t left by n bits, 0 < n < 32.
lj_rol(x, n) ==
  LET y == IF n >= 16 THEN << x[2], x[1] >> ELSE x
      k == n % 16
      p == 2 ^ k
      q == 2 ^ (16 - k)
  IN  << ((y[1] * p) % Half) + (y[2] \div q), ((y[2] * p) % Half) + (y[1] \div q) >>

\* The reflected CRC-32C polynomial 0x82F63B78 of the crc32 instructions.
PolyHi == 33526
PolyLo == 15224

RECURSIVE CrcShift(_, _)
\* n steps of the bit-serial CRC-32C register.
CrcShift(c, n) ==
  IF n = 0 THEN c
  ELSE LET s == << c[1] \div 2, (c[2] \div 2) + ((c[1] % 2) * 32768) >>
       IN  CrcShift(IF c[2] % 2 = 1
                    THEN << XorN(s[1], PolyHi, 16), XorN(s[2], PolyLo, 16) >>
                    ELSE s, n - 1)

\* Eight steps of the register from each low byte, tabulated.
CrcTab == [b \in 0..255 |-> CrcShift(<< 0, b >>, 8)]

\* Eight steps of the register: (c >> 8) ^ CrcTab[c & 0xff].
CrcByte(c) ==
  Xor32(<< c[1] \div 256, ((c[1] % 256) * 256) + (c[2] \div 256) >>,
        CrcTab[c[2] % 256])

\* _mm_crc32_u32 / __crc32cw: fold a 32-bit word into the accumulator:
\* exclusive-or the word in, then 32 steps of the register.  The accumulator
\* is bound through a singleton set so that it is evaluated before the
\* instruction is applied (operator arguments are otherwise evaluated on
\* demand, which nests a whole chain of folds).
lj_crc32_u32(crc, v) ==
  CHOOSE r \in { CrcByte(CrcByte(CrcByte(CrcByte(Xor32(c, v))))) : c \in {crc} } : TRUE

\* _mm_crc32_u64 / __crc32cd: fold a 64-bit word <<hi32, lo32>> into the low
\* 32 bits of the accumulator.
lj_crc32_u64(crc, v) == lj_crc32_u32(lj_crc32_u32(crc, v[2]), v[1])

\* ------------------------------------------------------------------------
\* Input buffers.  A buffer is a record [a, b]: its byte at offset p is
\* (a * (p mod 256) + b) mod 256, so buffers of any length are available.
\* ------------------------------------------------------------------------

Strings == { [a |-> 1, b |-> 97], [a |-> 7, b |-> 3], [a |-> 0, b |-> 255] }

ByteAt(str, p) == (str.a * (p % 256) + str.b) % 256

\* *(const uint8_t *)(str + p), as a uint32_t.
cast_uint8p(str, p) == << 0, ByteAt(str, p) >>

\* *cast_uint32p(str + p): an unaligned little-endian 4-byte load.
cast_uint32p(str, p) ==
  << ByteAt(str, p + 2) + 256 * ByteAt(str, p + 3),
     ByteAt(str, p) + 256 * ByteAt(str, p + 1) >>

\* *cast_uint64p(str + p): an unaligned little-endian 8-byte load.
cast_uint64p(str, p) == << cast_uint32p(str, p + 4), cast_uint32p(str, p) >>

\* A memory read of w bytes at offset p of the buffer.
Rd(p, w) == [off |-> p, width |-> w]

\* ------------------------------------------------------------------------
\* The length-band routines.  Each returns [h |-> the hash, reads |-> the
\* reads it made, in program order].
\* ------------------------------------------------------------------------

\* The three mixing rounds shared by lj_str_hash_1_4 and lj_str_hash_orig:
\*   a ^= h; a -= lj_rol(h, 11); b ^= a; b -= lj_rol(a, 25);
\*   h ^= b; h -= lj_rol(b, 16); return h
FinalMix(a, b, h) ==
  LET a1 == Xor32(a, h)
      a2 == Sub32(a1, lj_rol(h, 11))
      b1 == Xor32(b, a2)
      b2 == Sub32(b1, lj_rol(a2, 25))
      h1 == Xor32(h, b2)
  IN  Sub32(h1, lj_rol(b2, 16))

\* hash string with len in [1, 4)
lj_str_hash_1_4(str, len) ==
  LET a  == cast_uint8p(str, 0)
      h0 == Xor32(U32(len), cast_uint8p(str, len - 1))
      b  == cast_uint8p(str, len \div 2)
      h1 == Xor32(h0, b)
      h2 == Sub32(h1, lj_rol(b, 14))
  IN  [h     |-> FinalMix(a, b, h2),
       reads |-> << Rd(0, 1), Rd(len - 1, 1), Rd(len \div 2, 1) >>]

\* Variant: the len >= 8 case is forgotten, two 4-byte words are always read.
lj_str_hash_4_16_narrow(str, len) ==
  LET v1 == << U32(0), cast_uint32p(str, 0) >>
      v2 == << U32(0), cast_uint32p(str, len - 4) >>
      h0 == lj_crc32_u32(U32(0), U32(len))
      h1 == lj_crc32_u64(h0, v1)
  IN  [h     |-> lj_crc32_u64(h1, v2),
       reads |-> << Rd(0, 4), Rd(len - 4, 4) >>]

\* hash string with len in [4, 16)
lj_str_hash_4_16(str, len) ==
  LET wide == len >= 8
      v1 == IF wide THEN cast_uint64p(str, 0)
                    ELSE << U32(0), cast_uint32p(str, 0) >>
      v2 == IF wide THEN cast_uint64p(str, len - 8)
                    ELSE << U32(0), cast_uint32p(str, len - 4) >>
      h0 == lj_crc32_u32(U32(0), U32(len))
      h1 == lj_crc32_u64(h0, v1)
  IN  [h     |-> lj_crc32_u64(h1, v2),
       reads |-> IF wide THEN << Rd(0, 8), Rd(len - 8, 8) >>
                         ELSE << Rd(0, 4), Rd(len - 4, 4) >>]

RECURSIVE Loop_16_128(_, _, _, _, _, _)
\* for (i = 0; i < len - 16; i += 16) { h1 += crc(h1, str+i); h2 += crc(h2, str+i+8); }
\* The accumulators are uint64_t, but only their low 32 bits reach a crc32
\* instruction or the result, so they are kept modulo 2^32.
Loop_16_128(str, len, i, h1, h2, reads) ==
  IF i < len - 16
  THEN Loop_16_128(str, len, i + 16,
                   Add32(h1, lj_crc32_u64(h1, cast_uint64p(str, i))),
                   Add32(h2, lj_crc32_u64(h2, cast_uint64p(str, i + 8))),
                   reads \o << Rd(i, 8), Rd(i + 8, 8) >>)
  ELSE [h1 |-> h1, h2 |-> h2, reads |-> reads]

\* hash string with length in [16, 128)
lj_str_hash_16_128(str, len) ==
  LET l  == Loop_16_128(str, len, 0, lj_crc32_u32(U32(0), U32(len)), U32(0), << >>)
      h1 == lj_crc32_u64(l.h1, cast_uint64p(str, len - 16))
      h2 == lj_crc32_u64(l.h2, cast_uint64p(str, len - 8))
  IN  [h     |-> lj_crc32_u32(h1, h2),
       reads |-> l.reads \o << Rd(len - 16, 8), Rd(len - 8, 8) >>]

\* ------------------------------------------------------------------------
\* Hashing strings with length >= 128.
\* ------------------------------------------------------------------------

\* static const int8_t log2_tab[128], indexed from 0 (here: log2_tab[n + 1]).
log2_tab == << -1,0,1,1,2,2,2,2,3,3,3,3,3,3,3,3,4,4,
  4,4,4,4,4,4,4,4,4,4,4,4,4,4,5,5,5,5,5,5,5,5,5,5,5,5,5,5,5,
  5,5,5,5,5,5,5,5,5,5,5,5,5,5,5,5,5,6,6,6,6,6,6,6,6,6,6,6,6,
  6,6,6,6,6,6,6,6,6,6,6,6,6,6,6,6,6,6,6,6,6,6,6,6,6,6,6,6,6,
  6,6,6,6,6,6,6,6,6,6,6,6,6,6,6,6,6,6,6,6,6,6,6 >>

\* The conversion of an int to uint32_t, for -2^16 <= x < 2^31: a negative
\* x becomes 2^32 + x.
ToU32(x) == IF x < 0 THEN << Half - 1, Half + x >> ELSE U32(x)

\* The integer a uint32_t <<hi, lo>> below 2^31 stands for (the conversion of
\* a uint32_t to int, or its use as an array index).
U32Int(u) == (u[1] * Half) + u[2]

\* Variant: the second range adds 7 instead of 8.
log2_floor_off(n) ==
  ToU32(IF n <= 127 THEN log2_tab[n + 1]
        ELSE IF (n \div 256) <= 127 THEN log2_tab[(n \div 256) + 1] + 7
        ELSE IF (n \div 65536) <= 127 THEN log2_tab[(n \div 65536) + 1] + 16
        ELSE IF (n \div 16777216) <= 127 THEN log2_tab[(n \div 16777216) + 1] + 24
        ELSE 31)

\* return floor(log2(n)): a uint32_t <<hi, lo>>, so that log2_tab[0] = -1 is
\* returned as 4294967295 (n = 0).  The argument n is an integer, 0 <= n < 2^31.
log2_floor(n) ==
  ToU32(IF n <= 127 THEN log2_tab[n + 1]
        ELSE IF (n \div 256) <= 127 THEN log2_tab[(n \div 256) + 1] + 8
        ELSE IF (n \div 65536) <= 127 THEN log2_tab[(n \div 65536) + 1] + 16
        ELSE IF (n \div 16777216) <= 127 THEN log2_tab[(n \div 16777216) + 1] + 24
        ELSE 31)

\* random_pos[chunk_sz_order][idx & 1]; the table tab is a function from
\* 0..31 to pairs, slot 0 first, and chunk_sz_order a uint32_t.
get_random_pos_unsafe(tab, chunk_sz_order, idx) ==
  tab[U32Int(chunk_sz_order)][(idx % 2) + 1]

RECURSIVE Loop_128_above_stride2(_, _, _, _, _, _, _, _, _)
\* Variant: the loop advances two chunks an iteration (chunk_ptr += 2 * chunk_sz).
Loop_128_above_stride2(str, chunk_num, chunk_sz, pos1, pos2, i, chunk_ptr, acc, reads) ==
  IF i < (chunk_num \div 2) - 1
  THEN Loop_128_above_stride2(str, chunk_num, chunk_sz, pos1, pos2, i + 1,
         chunk_ptr + (2 * chunk_sz),
         << lj_crc32_u64(acc[1], cast_uint64p(str, chunk_ptr + pos1)),
            lj_crc32_u64(acc[2], cast_uint64p(str, chunk_ptr + chunk_sz + pos2)) >>,
         reads \o << Rd(chunk_ptr + pos1, 8), Rd(chunk_ptr + chunk_sz + pos2, 8) >>)
  ELSE [h1 |-> acc[1], h2 |-> acc[2], chunk_ptr |-> chunk_ptr, reads |-> reads]

RECURSIVE Loop_128_above(_, _, _, _, _, _, _, _, _)
\* for (i = 0, chunk_ptr = str; i < (chunk_num / 2 - 1); chunk_ptr += chunk_sz, i++)
\* chunk_ptr is kept as its offset from str.
Loop_128_above(str, chunk_num, chunk_sz, pos1, pos2, i, chunk_ptr, acc, reads) ==
  IF i < (chunk_num \div 2) - 1
  THEN Loop_128_above(str, chunk_num, chunk_sz, pos1, pos2, i + 1,
         chunk_ptr + chunk_sz,
         << lj_crc32_u64(acc[1], cast_uint64p(str, chunk_ptr + pos1)),
            lj_crc32_u64(acc[2], cast_uint64p(str, chunk_ptr + chunk_sz + pos2)) >>,
         reads \o << Rd(chunk_ptr + pos1, 8), Rd(chunk_ptr + chunk_sz + pos2, 8) >>)
  ELSE [h1 |-> acc[1], h2 |-> acc[2], chunk_ptr |-> chunk_ptr, reads |-> reads]

lj_str_hash_128_above(tab, str, len) ==
  LET chunk_num == 16
      chunk_sz == len \div chunk_num
      chunk_sz_log2 == log2_floor(chunk_sz)
      pos1 == get_random_pos_unsafe(tab, chunk_sz_log2, 0)
      pos2 == get_random_pos_unsafe(tab, chunk_sz_log2, 1)
      l  == Loop_128_above(str, chunk_num, chunk_sz, pos1, pos2, 0, 0,
                           << lj_crc32_u32(U32(0), U32(len)), U32(0) >>, << >>)
      \* the last two chunks
      p3 == l.chunk_ptr + pos1
      p4 == l.chunk_ptr + chunk_sz - 8 - pos2
      h1 == lj_crc32_u64(l.h1, cast_uint64p(str, p3))
      h2 == lj_crc32_u64(l.h2, cast_uint64p(str, p4))
      \* process the trailing part
      h3 == lj_crc32_u64(h1, cast_uint64p(str, 0))
      h4 == lj_crc32_u64(h2, cast_uint64p(str, len - 8))
  IN  [h     |-> lj_crc32_u32(h3, h4),
       row   |-> U32Int(chunk_sz_log2),
       reads |-> l.reads \o << Rd(p3, 8), Rd(p4, 8), Rd(0, 8), Rd(len - 8, 8) >>]

\* Variant: the [16, 128) band starts one byte late (len > 16).
lj_str_hash_crc32_late(tab, str, len) ==
  IF len < 128
  THEN IF len > 16
       THEN [routine |-> "lj_str_hash_16_128"] @@ lj_str_hash_16_128(str, len)
       ELSE IF len >= 4
       THEN [routine |-> "lj_str_hash_4_16"] @@ lj_str_hash_4_16(str, len)
       ELSE [routine |-> "lj_str_hash_1_4"] @@ lj_str_hash_1_4(str, len)
  ELSE [routine |-> "lj_str_hash_128_above"] @@ lj_str_hash_128_above(tab, str, len)

\* The dispatcher.  NOTE: the "len" should not be zero
lj_str_hash_crc32(tab, str, len) ==
  IF len < 128
  THEN IF len >= 16
       THEN [routine |-> "lj_str_hash_16_128"] @@ lj_str_hash_16_128(str, len)
       ELSE IF len >= 4
       THEN [routine |-> "lj_str_hash_4_16"] @@ lj_str_hash_4_16(str, len)
       ELSE [routine |-> "lj_str_hash_1_4"] @@ lj_str_hash_1_4(str, len)
  ELSE [routine |-> "lj_str_hash_128_above"] @@ lj_str_hash_128_above(tab, str, len)

\* The portable routine (lookup3 mixing).  len is (MSize)lenx; the lengths
\* of the model are below 2^31, so the conversion changes nothing.
lj_str_hash_orig(str, len) ==
  IF len >= 4
  THEN LET a  == cast_uint32p(str, 0)
           h0 == Xor32(U32(len), cast_uint32p(str, len - 4))
           b  == cast_uint32p(str, (len \div 2) - 2)
           h1 == Xor32(h0, b)
           h2 == Sub32(h1, lj_rol(b, 14))
           b1 == Add32(b, cast_uint32p(str, (len \div 4) - 1))
       IN  [routine |-> "lj_str_hash_orig", h |-> FinalMix(a, b1, h2),
            reads |-> << Rd(0, 4), Rd(len - 4, 4), Rd((len \div 2) - 2, 4),
                         Rd((len \div 4) - 1, 4) >>]
  ELSE IF len > 0
  THEN LET a  == cast_uint8p(str, 0)
           h0 == Xor32(U32(len), cast_uint8p(str, len - 1))
           b  == cast_uint8p(str, len \div 2)
           h1 == Xor32(h0, b)
           h2 == Sub32(h1, lj_rol(b, 14))
       IN  [routine |-> "lj_str_hash_orig", h |-> FinalMix(a, b, h2),
            reads |-> << Rd(0, 1), Rd(len - 1, 1), Rd(len \div 2, 1) >>]
  ELSE [routine |-> "lj_str_hash_orig", h |-> U32(0), reads |-> << >>]

\* ------------------------------------------------------------------------
\* The Sample-Position Table and its one-time initialisation.
\* ------------------------------------------------------------------------

RECURSIVE BitAnd(_, _)
\* Bitwise and of two non-negative integers.
BitAnd(a, b) ==
  IF a = 0 \/ b = 0 THEN 0
  ELSE ((a % 2) * (b % 2)) + (2 * BitAnd(a \div 2, b \div 2))

\* #define POW2_MASK(n) ((1L << (n)) - 1), for 1 <= n <= 31
POW2_MASK(n) == ((2 ^ (n - 1) - 1) * 2) + 1

\* static uint32_t random_pos[32][2]: zero until initialised.
ZeroTable == [i \in 0..31 |-> << 0, 0 >>]

\* The C library's generator: RAND_MAX is 2^31-1 for random() and 32767 for
\* the rand() that stands in for it under __MINGW32__; 65536 is a maximum
\* that is a power of two, for which ceil(log2(RAND_MAX)) adds nothing.
RandMaxes == { 32767, 65536, 2147483647 }

\* What the generator returns: "zero" and "max" are the two extreme
\* sequences (always 0, always RAND_MAX), "mix" a sequence that depends on
\* the seed given to srandom() and on the number n of draws made since.
RandKinds == { "zero", "max", "mix" }

\* random(), the n-th draw after srandom(seed).
random(kind, rand_max, seed, n) ==
  IF kind = "zero" THEN 0
  ELSE IF kind = "max" THEN rand_max
  ELSE LET r == lj_crc32_u32(seed, U32(n))
       IN  BitAnd(((r[1] % 32768) * Half) + r[2], rand_max)

\* ceil(log2(RAND_MAX)):
\*   rml = log2_floor(RAND_MAX); if (RAND_MAX & (RAND_MAX - 1)) rml += 1;
RandMaxLog(rand_max) ==
  U32Int(log2_floor(rand_max)) + (IF BitAnd(rand_max, rand_max - 1) # 0 THEN 1 ELSE 0)

\* seed = lj_crc32_u32(0, getpid()); seed = lj_crc32_u32(seed, time(NULL));
InitSeed(pid, tm) == lj_crc32_u32(lj_crc32_u32(U32(0), U32(pid)), U32(tm))

\* Variant: the draw is stored unmasked.
MaskedCell_unmasked(raw, i) == raw

\* One cell of the second loop: random() & POW2_MASK(i+1)
MaskedCell(raw, i) == BitAnd(raw, POW2_MASK(i + 1))

\* One cell of the third loop:
\*   scale = random_pos[i - rml][0]; if (scale == 0) scale = 1;
\*   v = (random() * scale) & POW2_MASK(i+1);
ScaledCell(raw, scale0, i) ==
  LET scale == IF scale0 = 0 THEN 1 ELSE scale0
  IN  BitAnd(raw * scale, POW2_MASK(i + 1))

\* The generator's state, which is the process's: the seed last given to
\* srandom() and the number n of draws made since.  Before any srandom() the
\* seed is 1.
FreshGen == [seed |-> U32(1), n |-> 0]

\* srandom(seed)
srandom(seed) == [seed |-> seed, n |-> 0]

\* The position of a run of lj_str_hash_init_random at the head of its loops.
LoopHead == [i |-> 0, j |-> 0, ph |-> "top", scale |-> 0, raw |-> 0]

\* Whether the next step of a run at position l stores into random_pos.
IsStore(l) == l.i < 3 \/ l.ph = "store"

\* One step of the loops.  st is the table, the generator, and the locals of
\* the run: row i, the number j of cells of row i already stored, the
\* phase ph within the cell, and the scale and the draw read so far.  The
\* three loops share the counter i:
\*   i < 3:    random_pos[i][0] = random_pos[i][1] = 0;  (two stores, slot 1 first)
\*   i < rml:  random() returns;  then random_pos[i][j] = draw & POW2_MASK(i+1);
\*   i < 31:   scale = random_pos[i - rml][0];  then random() returns;
\*             then random_pos[i][j] = v;
\* random() is a call into the C library that returns before the store is
\* made, so the draw and the store are two steps.
InitStep(st, kind, rand_max, rml) ==
  LET i == st.i
      next == [st EXCEPT !.i = IF st.j = 1 THEN i + 1 ELSE i, !.j = 1 - st.j,
                         !.ph = "top", !.scale = 0, !.raw = 0]
      draw == [st EXCEPT !.raw = random(kind, rand_max, st.gen.seed, st.gen.n),
                         !.gen.n = st.gen.n + 1, !.ph = "store"]
  IN  IF st.ph = "top"
      THEN IF i < 3 THEN [next EXCEPT !.tab[i][2 - st.j] = 0]
           ELSE IF i < rml THEN draw
           ELSE [st EXCEPT !.scale = st.tab[i - rml][1], !.ph = "draw"]
      ELSE IF st.ph = "draw" THEN draw
      ELSE [next EXCEPT !.tab[i][st.j + 1] =
              IF i < rml THEN MaskedCell(st.raw, i)
              ELSE ScaledCell(st.raw, st.scale, i)]

RECURSIVE FillRows(_, _, _, _)
\* The loops of lj_str_hash_init_random run to their end (i = 31) by one
\* thread alone.  Row 31 is never written.
FillRows(st, kind, rand_max, rml) ==
  IF st.i >= 31 THEN st
  ELSE FillRows(InitStep(st, kind, rand_max, rml), kind, rand_max, rml)

\* This function is to populate `random_pos`: the table a whole run leaves,
\* when no other thread runs.
lj_str_hash_init_random(tab, kind, rand_max, pid, tm) ==
  FillRows([tab |-> tab, gen |-> srandom(InitSeed(pid, tm))] @@ LoopHead,
           kind, rand_max, RandMaxLog(rand_max)).tab

\* ------------------------------------------------------------------------
\* State.
\* ------------------------------------------------------------------------

VARIABLES
  cpu,         \* the build target and what its capability query answers (see Cpus)
  rand_max,    \* RAND_MAX of the C library the program is built against
  rand_kind,   \* which sequence its generator returns (see RandKinds)
  gen,         \* the state of the C library's generator (see FreshGen)
  strhashfn,   \* static StrHashFunction strhashfn of lj_init_strhashfn
  random_pos,  \* static uint32_t random_pos[32][2]
  gfn,         \* g->strhashfn of every global_State g
  pc,          \* where each thread stands ("idle": outside every function)
  arg,         \* the global_State each thread's current call was given
  loc,         \* each thread's local variables (see NoLocals)
  ncalls,      \* calls made so far, by all threads together
  last,        \* the thread that took the last step (0: none yet)
  preempts,    \* how often a thread was preempted inside the loops of
               \* lj_str_hash_init_random
  initRuns,    \* history: runs of lj_str_hash_init_random begun so far
  lateWrite,   \* history: whether random_pos was stored to after strhashfn was set
  observed,    \* history: [str, len, h] of each call of a published function, in order
  inp,         \* the (str, len) given to the routine under SpecHash
  call         \* what the routine under SpecHash returned, or NoCall

vars == << cpu, rand_max, rand_kind, gen, strhashfn, random_pos, gfn, pc, arg,
           loc, ncalls, last, preempts, initRuns, lateWrite, observed, inp, call >>

\* What the program is built against: fixed for the life of the process.
env == << cpu, rand_max, rand_kind >>

NULL == "NULL"
NoCall == [routine |-> "none"]
NoInput == [str |-> [a |-> 0, b |-> 0], len |-> 0]

\* The locals of a thread: those of lj_str_hash_init_random (see LoopHead,
\* and rml); len and pos1 of lj_str_hash_128_above.
NoLocals == [rml |-> 0, len |-> 0, pos1 |-> 0] @@ LoopHead

\* #define F_CPU_SSE4_2 (1 << 20)
F_CPU_SSE4_2 == 2 ^ 20

\* #define HWCAP_CRC32 (1 << 7)
HWCAP_CRC32 == 2 ^ 7

\* ENOENT of <errno.h>, which lj_check_crc32_support compares hwcap with.
ENOENT == 2

\* The feature words features[2] tried on x64: no SSE4.2, SSE4.2 alone,
\* SSE4.1 alone (bit 19), both.
CpuWords == { 0, F_CPU_SSE4_2, 2 ^ 19, F_CPU_SSE4_2 + (2 ^ 19) }

\* The words getauxval(AT_HWCAP) returns tried on arm64: no CRC32, CRC32,
\* and the value equal to ENOENT.
HwcapWords == { 0, HWCAP_CRC32, ENOENT }

\* LUAJIT_TARGET, and what the target's query answers: on x64 the value
\* lj_vm_cpuid(1, features) returns and features[2] (which is whatever the
\* stack held when lj_vm_cpuid returns 0); on arm64 the word of getauxval.
Cpus ==
  { [target |-> "x64", cpuid |-> r, word |-> w] : r \in { 0, 1 }, w \in CpuWords }
    \cup { [target |-> "arm64", cpuid |-> 0, word |-> w] : w \in HwcapWords }

\* Variant: the SSE4.1 bit (1 << 19) is tested on x64.
lj_check_crc32_support_sse41(c) ==
  IF c.target = "x64"
  THEN IF c.cpuid # 0 THEN BitAnd(c.word, 2 ^ 19) # 0 ELSE FALSE
  ELSE IF c.word # ENOENT THEN BitAnd(c.word, HWCAP_CRC32) # 0 ELSE FALSE

\* lj_check_crc32_support():
\*   x64:    if (lj_vm_cpuid(1, features)) return (features[2] & F_CPU_SSE4_2) != 0;
\*   arm64:  if (hwcap != ENOENT) return (hwcap & HWCAP_CRC32) != 0;
\*   return 0;
lj_check_crc32_support(c) ==
  IF c.target = "x64"
  THEN IF c.cpuid # 0 THEN BitAnd(c.word, F_CPU_SSE4_2) # 0 ELSE FALSE
  ELSE IF c.word # ENOENT THEN BitAnd(c.word, HWCAP_CRC32) # 0 ELSE FALSE

\* getpid() of the one process, and the values time(NULL) may return.
Pid == 4242
Times == { 1700000000, 1700000001 }

\* The global_State objects of the process.
GlobalStates == 1..NStates

\* The strings hashed through a published function: one per band,
\* and the empty string (which only the portable routine may be given).
HashStr == [a |-> 7, b |-> 3]
HashLens == { 0, 3, 9, 40, 200 }

\* ------------------------------------------------------------------------
\* The threads.  Nothing in the file takes a lock, so the statements of two
\* threads interleave freely; every action below is one thread's next
\* statement (in the loops of lj_str_hash_init_random: its next store).
\* ------------------------------------------------------------------------

\* Thread t takes the next step.  Taking it while another thread stands
\* inside the loops of lj_str_hash_init_random preempts that thread, which
\* the schedules explored do at most MaxPreempt times.
Sched(t) ==
  LET preempted == last # t /\ last \in DOMAIN pc /\ pc[last] = "fill"
  IN  /\ preempted => preempts < MaxPreempt
      /\ preempts' = preempts + (IF preempted THEN 1 ELSE 0)
      /\ last' = t

\* The global_State objects thread t uses: a global_State (a Lua VM) is not
\* shared between threads, so every one of them belongs to one thread.
StatesOf(t) == { g \in GlobalStates : ((g - 1) % Cardinality(DOMAIN pc)) + 1 = t }

\* Variant: the selection is made again on every call.
NeedsInit_always(fn) == TRUE

\* if (strhashfn == NULL)
NeedsInit(fn) == fn = NULL

\* The value the function stores into g->strhashfn.
Published(fn) == fn

\* A thread enters lj_init_strhashfn(g).
Enter(t, g) ==
  /\ pc[t] = "idle"
  /\ g \in StatesOf(t)
  /\ ncalls < MaxCalls
  /\ Sched(t)
  /\ pc' = [pc EXCEPT ![t] = "check"]
  /\ arg' = [arg EXCEPT ![t] = g]
  /\ ncalls' = ncalls + 1
  /\ UNCHANGED << env, gen, strhashfn, random_pos, gfn, loc,
                  initRuns, lateWrite, observed, inp, call >>

\* if (strhashfn == NULL) { ... }
Check(t) ==
  /\ pc[t] = "check"
  /\ Sched(t)
  /\ pc' = [pc EXCEPT ![t] = IF NeedsInit(strhashfn) THEN "probe" ELSE "publish"]
  /\ UNCHANGED << env, gen, strhashfn, random_pos, gfn, arg, loc,
                  ncalls, initRuns, lateWrite, observed, inp, call >>

\* if (lj_check_crc32_support()) { ... } else { ... }
Probe(t) ==
  /\ pc[t] = "probe"
  /\ Sched(t)
  /\ pc' = [pc EXCEPT ![t] = IF lj_check_crc32_support(cpu)
                             THEN "init" ELSE "set_orig"]
  /\ UNCHANGED << env, gen, strhashfn, random_pos, gfn, arg, loc,
                  ncalls, initRuns, lateWrite, observed, inp, call >>

\* lj_str_hash_init_random() up to its loops: rml, the seed, srandom(seed).
InitSeedGen(t) ==
  /\ pc[t] = "init"
  /\ Sched(t)
  /\ \E tm \in Times : gen' = srandom(InitSeed(Pid, tm))
  /\ loc' = [loc EXCEPT ![t] = [NoLocals EXCEPT !.rml = RandMaxLog(rand_max)]]
  /\ initRuns' = initRuns + 1
  /\ pc' = [pc EXCEPT ![t] = "fill"]
  /\ UNCHANGED << env, strhashfn, random_pos, gfn, arg, ncalls,
                  lateWrite, observed, inp, call >>

\* The loops of lj_str_hash_init_random, one step of InitStep at a time: a
\* store into random_pos, a return of random(), or the read of
\* random_pos[i - rml][0].  After the last store the function returns.
InitLoopStep(t) ==
  /\ pc[t] = "fill"
  /\ Sched(t)
  /\ LET l  == loc[t]
         st == InitStep([tab |-> random_pos, gen |-> gen, i |-> l.i, j |-> l.j,
                         ph |-> l.ph, scale |-> l.scale, raw |-> l.raw],
                        rand_kind, rand_max, l.rml)
     IN  /\ random_pos' = st.tab
         /\ gen' = st.gen
         /\ lateWrite' = (lateWrite \/ (IsStore(l) /\ strhashfn # NULL))
         /\ IF st.i >= 31
            THEN /\ pc' = [pc EXCEPT ![t] = "set_crc32"]
                 /\ loc' = [loc EXCEPT ![t] = NoLocals]
            ELSE /\ pc' = pc
                 /\ loc' = [loc EXCEPT ![t].i = st.i, ![t].j = st.j, ![t].ph = st.ph,
                                       ![t].scale = st.scale, ![t].raw = st.raw]
  /\ UNCHANGED << env, strhashfn, gfn, arg, ncalls, initRuns, observed, inp, call >>

\* strhashfn = lj_str_hash_crc32;
SetCrc32(t) ==
  /\ pc[t] = "set_crc32"
  /\ Sched(t)
  /\ strhashfn' = "lj_str_hash_crc32"
  /\ pc' = [pc EXCEPT ![t] = "publish"]
  /\ UNCHANGED << env, gen, random_pos, gfn, arg, loc, ncalls,
                  initRuns, lateWrite, observed, inp, call >>

\* strhashfn = lj_str_hash_orig;
SetOrig(t) ==
  /\ pc[t] = "set_orig"
  /\ Sched(t)
  /\ strhashfn' = "lj_str_hash_orig"
  /\ pc' = [pc EXCEPT ![t] = "publish"]
  /\ UNCHANGED << env, gen, random_pos, gfn, arg, loc, ncalls,
                  initRuns, lateWrite, observed, inp, call >>

\* g->strhashfn = strhashfn;  and return
Publish(t) ==
  /\ pc[t] = "publish"
  /\ Sched(t)
  /\ gfn' = [gfn EXCEPT ![arg[t]] = Published(strhashfn)]
  /\ pc' = [pc EXCEPT ![t] = "idle"]
  /\ UNCHANGED << env, gen, strhashfn, random_pos, arg, loc,
                  ncalls, initRuns, lateWrite, observed, inp, call >>

\* g->strhashfn(str, len): a call of the function published in g.  The
\* dispatcher is never given the empty string (NOTE: the "len" should not be
\* zero).
CallPublished(fn, tab, str, len) ==
  IF fn = "lj_str_hash_crc32" THEN lj_str_hash_crc32(tab, str, len)
  ELSE lj_str_hash_orig(str, len)

\* Whether the call reads random_pos: the dispatcher with len >= 128.
ReadsTable(fn, len) == fn = "lj_str_hash_crc32" /\ len >= 128

\* A call that does not read random_pos, from entry to return.
Hash(t, g, len) ==
  /\ pc[t] = "idle"
  /\ g \in StatesOf(t)
  /\ ncalls < MaxCalls
  /\ gfn[g] # NULL
  /\ gfn[g] = "lj_str_hash_crc32" => len >= 1
  /\ ~ReadsTable(gfn[g], len)
  /\ Sched(t)
  /\ observed' = Append(observed,
       [str |-> HashStr, len |-> len,
        h |-> CallPublished(gfn[g], random_pos, HashStr, len).h])
  /\ ncalls' = ncalls + 1
  /\ UNCHANGED << env, gen, strhashfn, random_pos, gfn, pc, arg, loc,
                  initRuns, lateWrite, inp, call >>

\* A call of lj_str_hash_128_above up to its first read of random_pos:
\*   pos1 = get_random_pos_unsafe(chunk_sz_log2, 0);
HashPos1(t, g, len) ==
  /\ pc[t] = "idle"
  /\ g \in StatesOf(t)
  /\ ncalls < MaxCalls
  /\ gfn[g] # NULL
  /\ ReadsTable(gfn[g], len)
  /\ Sched(t)
  /\ loc' = [loc EXCEPT ![t] = [NoLocals EXCEPT
               !.len = len,
               !.pos1 = get_random_pos_unsafe(random_pos, log2_floor(len \div 16), 0)]]
  /\ pc' = [pc EXCEPT ![t] = "pos2"]
  /\ ncalls' = ncalls + 1
  /\ UNCHANGED << env, gen, strhashfn, random_pos, gfn, arg,
                  initRuns, lateWrite, observed, inp, call >>

\* The rest of the call, from pos2 = get_random_pos_unsafe(chunk_sz_log2, 1)
\* to the return: the routine on the table it sees, whose slot 0 is the pos1
\* read before.
HashPos2(t) ==
  /\ pc[t] = "pos2"
  /\ Sched(t)
  /\ LET row  == U32Int(log2_floor(loc[t].len \div 16))
         seen == [random_pos EXCEPT ![row][1] = loc[t].pos1]
     IN  observed' = Append(observed,
           [str |-> HashStr, len |-> loc[t].len,
            h |-> lj_str_hash_crc32(seen, HashStr, loc[t].len).h])
  /\ loc' = [loc EXCEPT ![t] = NoLocals]
  /\ pc' = [pc EXCEPT ![t] = "idle"]
  /\ UNCHANGED << env, gen, strhashfn, random_pos, gfn, arg, ncalls,
                  initRuns, lateWrite, inp, call >>

InitWith(threads) ==
  /\ cpu \in Cpus
  /\ rand_max \in RandMaxes
  /\ rand_kind \in RandKinds
  /\ gen = FreshGen
  /\ strhashfn = NULL
  /\ random_pos = ZeroTable
  /\ gfn = [g \in GlobalStates |-> NULL]
  /\ pc = [t \in threads |-> "idle"]
  /\ arg = [t \in threads |-> 1]
  /\ loc = [t \in threads |-> NoLocals]
  /\ ncalls = 0
  /\ last = 0
  /\ preempts = 0
  /\ initRuns = 0
  /\ lateWrite = FALSE
  /\ observed = << >>
  /\ inp = NoInput
  /\ call = NoCall

\* One thread: every call of lj_init_strhashfn returns before the next.
Init == InitWith({1})

\* NThreads threads, which may be inside lj_init_strhashfn together, in a
\* process of the common case: built for x64, against a C library with
\* RAND_MAX = 2^31-1 and draws that depend on the seed; lj_vm_cpuid answers,
\* with SSE4.2 or without.
InitThreads ==
  /\ InitWith(1..NThreads)
  /\ cpu.target = "x64"
  /\ cpu.cpuid = 1
  /\ cpu.word \in { 0, F_CPU_SSE4_2 }
  /\ rand_max = POW2_MASK(31)
  /\ rand_kind = "mix"

Next ==
  \/ \E t \in DOMAIN pc, g \in GlobalStates : Enter(t, g)
  \/ \E t \in DOMAIN pc : Check(t)
  \/ \E t \in DOMAIN pc : Probe(t)
  \/ \E t \in DOMAIN pc : InitSeedGen(t)
  \/ \E t \in DOMAIN pc : InitLoopStep(t)
  \/ \E t \in DOMAIN pc : SetCrc32(t)
  \/ \E t \in DOMAIN pc : SetOrig(t)
  \/ \E t \in DOMAIN pc : Publish(t)
  \/ \E t \in DOMAIN pc, g \in GlobalStates, len \in HashLens : Hash(t, g, len)
  \/ \E t \in DOMAIN pc, g \in GlobalStates, len \in HashLens : HashPos1(t, g, len)
  \/ \E t \in DOMAIN pc : HashPos2(t)

Spec == Init /\ [][Next]_vars

SpecThreads == InitThreads /\ [][Next]_vars

\* ------------------------------------------------------------------------
\* The dispatcher as a function of its input: SpecHash gives it every buffer
\* of Strings at every length of LenSamples, under every table of Tables.
\* ------------------------------------------------------------------------

\* The lengths hashed: all the short ones, then the edges of every order.
LenSamples ==
  (1..(128 + ExtraLen))
    \cup { (16 * (2 ^ k)) + d : k \in 3..MaxOrder, d \in { -1, 0, 15 } }
    \cup { POW2_MASK(31) }

\* A cell of row i within the table's bounds 0 <= offset < 2^(i+1):
\* the least, the greatest, 2^i, and one in between.
CellKinds == { "zero", "pow", "mid", "max" }

CellOf(kind, i) ==
  IF kind = "zero" THEN 0
  ELSE IF kind = "pow" THEN 2 ^ i
  ELSE IF kind = "mid" THEN (2 ^ i) + (i % (2 ^ i))
  ELSE POW2_MASK(i + 1)

TableOf(k1, k2) ==
  [i \in 0..31 |-> IF i = 31 THEN << 0, 0 >> ELSE << CellOf(k1, i), CellOf(k2, i) >>]

Tables == { TableOf(k1, k2) : k1 \in CellKinds, k2 \in CellKinds }

InitHash ==
  /\ cpu = [target |-> "x64", cpuid |-> 1, word |-> F_CPU_SSE4_2]
  /\ rand_max = POW2_MASK(31)
  /\ rand_kind = "mix"
  /\ gen = FreshGen
  /\ strhashfn = "lj_str_hash_crc32"
  /\ random_pos \in Tables
  /\ gfn = [g \in GlobalStates |-> "lj_str_hash_crc32"]
  /\ pc = << >>
  /\ arg = << >>
  /\ loc = << >>
  /\ ncalls = 0
  /\ last = 0
  /\ preempts = 0
  /\ initRuns = 1
  /\ lateWrite = FALSE
  /\ observed = << >>
  /\ inp \in [str : Strings, len : LenSamples]
  /\ call = NoCall

\* lj_str_hash_crc32(str, len) on the input.
RunCrc32 ==
  /\ call = NoCall
  /\ call' = lj_str_hash_crc32(random_pos, inp.str, inp.len)
  /\ UNCHANGED << env, gen, strhashfn, random_pos, gfn, pc, arg, loc, ncalls,
                  last, preempts, initRuns, lateWrite, observed, inp >>

NextHash == RunCrc32

SpecHash == InitHash /\ [][NextHash]_vars

\* ------------------------------------------------------------------------
\* Properties.
\* ------------------------------------------------------------------------

\* The bytes a read touches.
Bytes(r) == r.off .. (r.off + r.width - 1)

\* The bytes a call touches.
Touched(c) == UNION { Bytes(c.reads[k]) : k \in 1..Len(c.reads) }

\* Whether the capability query reports the crc32 instruction: on x64 the
\* query succeeded and bit 20 of its word is set, on arm64 bit 7 of the word
\* is set (a word equal to ENOENT has no bit 7).
HasCrc32 ==
  IF cpu.target = "x64"
  THEN cpu.cpuid # 0 /\ (cpu.word \div (2 ^ 20)) % 2 = 1
  ELSE (cpu.word \div (2 ^ 7)) % 2 = 1

\* lj_str_hash_init_random has run and no thread is inside its loops.
InitDone == initRuns >= 1 /\ \A t \in DOMAIN pc : pc[t] # "fill"

\* floor(log2(n)) for 1 <= n < 2^31, from its definition.
FloorLog2(n) == CHOOSE k \in 0..30 : 2 ^ k <= n /\ n <= POW2_MASK(k + 1)

\* The rows lj_str_hash_init_random writes, whatever the generator: those
\* that differ from a table of cells no run produces.
WrittenRows ==
  LET mark == [i \in 0..31 |-> << -1, -1 >>]
      t1   == lj_str_hash_init_random(mark, "zero", 32767, Pid, 0)
      t2   == lj_str_hash_init_random(mark, "zero", 65536, Pid, 0)
      t3   == lj_str_hash_init_random(mark, "zero", POW2_MASK(31), Pid, 0)
  IN  { i \in 0..31 : t1[i] # mark[i] /\ t2[i] # mark[i] /\ t3[i] # mark[i] }

\* Whether any call of lj_init_strhashfn has returned.
SomeCallReturned == \E g \in GlobalStates : gfn[g] # NULL

\* C1: when threads call lj_init_strhashfn concurrently, exactly one of them
\* runs lj_str_hash_init_random, and random_pos is never written once the
\* selection is published: at most one run of the initialisation, and no
\* store to random_pos after strhashfn was set.
C1_OneWinner == initRuns <= 1 /\ ~lateWrite

\* C2: each of the 18 eight-byte reads of lj_str_hash_128_above lies inside
\* the buffer [0, len), for every len >= 128 and every table within bounds.
C2_ReadsInBuffer ==
  call.routine = "lj_str_hash_128_above" =>
    /\ Len(call.reads) = 18
    /\ \A k \in 1..18 :
         /\ call.reads[k].width = 8
         /\ call.reads[k].off >= 0
         /\ call.reads[k].off + 8 <= inp.len

\* C2 witness: the shortest long string under the table of greatest offsets.
C2_Witness ==
  /\ call.routine = "lj_str_hash_128_above"
  /\ inp.len = 128
  /\ random_pos = TableOf("max", "max")
  /\ call.reads[13].off = 63

\* C3: with one thread, the initialisation runs at most once; strhashfn,
\* once set, is one of the two routines and never changes; every call that
\* has returned published that function; random_pos is not written after
\* the first call returned; repeated hash calls on a string agree.
C3_InitOnce ==
  [][ /\ initRuns' <= 1
      /\ strhashfn' \in { NULL, "lj_str_hash_crc32", "lj_str_hash_orig" }
      /\ strhashfn # NULL => strhashfn' = strhashfn
      /\ \A g \in GlobalStates : gfn'[g] # NULL => gfn'[g] = strhashfn' /\ strhashfn' # NULL
      /\ SomeCallReturned => random_pos' = random_pos
      /\ \A i, j \in 1..Len(observed') :
           (observed'[i].str = observed'[j].str /\ observed'[i].len = observed'[j].len)
             => observed'[i].h = observed'[j].h ]_vars

\* C3 witness: the table was initialised, and the 200-byte string was hashed
\* twice through the published dispatcher.
C3_Witness ==
  /\ initRuns = 1
  /\ strhashfn = "lj_str_hash_crc32"
  /\ Len(observed) >= 2
  /\ observed[1].len = 200
  /\ observed[2].len = 200

\* C4: after lj_str_hash_init_random, every cell of rows 0..30 is within
\* 0 <= offset < 2^(order+1), and rows 0..2 are zero.  With one thread this
\* holds from the first store of the run on, so also when the run completes.
C4_TableBounds ==
  initRuns >= 1 =>
    \A i \in 0..30, s \in 1..2 :
      /\ random_pos[i][s] >= 0
      /\ random_pos[i][s] <= POW2_MASK(i + 1)
      /\ i < 3 => random_pos[i][s] = 0

\* C4 witness: a table built with RAND_MAX = 32767, whose rows 15..30 come
\* from the scaled branch, with the greatest draws.
C4_Witness ==
  /\ InitDone
  /\ strhashfn = "lj_str_hash_crc32"
  /\ rand_max = 32767
  /\ rand_kind = "max"
  /\ random_pos[3] = << 15, 15 >>
  /\ random_pos[30][1] > 32767

\* C5: for len in 1..127 the reads of the selected routine cover exactly
\* the bytes 0..len-1.
C5_FullCoverage ==
  call.routine \in { "lj_str_hash_1_4", "lj_str_hash_4_16", "lj_str_hash_16_128" } =>
    Touched(call) = 0 .. (inp.len - 1)

\* C5 witness: a length that the 16-byte stride does not divide.
C5_Witness ==
  /\ call.routine = "lj_str_hash_16_128"
  /\ inp.len = 127
  /\ Len(call.reads) = 16

\* C6: after initialisation every cell of rows 3..30 is at least 2^order
\* (and below 2^(order+1)).
C6_CellsAtLeastPow2 ==
  InitDone =>
    \A i \in 3..30, s \in 1..2 :
      random_pos[i][s] >= 2 ^ i /\ random_pos[i][s] <= POW2_MASK(i + 1)

\* C7: the dispatcher is published exactly when the CPU has the instruction,
\* and then the table has been initialised; otherwise the portable routine is
\* published, the initialisation never runs, and the empty string hashes to 0.
C7_Selection ==
  /\ \A g \in GlobalStates :
       gfn[g] # NULL =>
         /\ gfn[g] = "lj_str_hash_crc32" <=> HasCrc32
         /\ gfn[g] = "lj_str_hash_orig" <=> ~HasCrc32
         /\ HasCrc32 => InitDone
  /\ ~HasCrc32 =>
       /\ initRuns = 0
       /\ random_pos = ZeroTable
       /\ \A i \in 1..Len(observed) : observed[i].len = 0 => observed[i].h = U32(0)

\* C7 witness: no crc32 instruction (only the SSE4.1 bit), the portable
\* routine published, the empty string hashed.
C7_Witness ==
  /\ cpu = [target |-> "x64", cpuid |-> 1, word |-> 2 ^ 19]
  /\ gfn[1] = "lj_str_hash_orig"
  /\ Len(observed) >= 1
  /\ observed[1].len = 0

\* C8: the dispatcher calls the routine of the band len lies in.
C8_Bands ==
  call # NoCall =>
    call.routine =
      (IF inp.len < 4 THEN "lj_str_hash_1_4"
       ELSE IF inp.len < 16 THEN "lj_str_hash_4_16"
       ELSE IF inp.len < 128 THEN "lj_str_hash_16_128"
       ELSE "lj_str_hash_128_above")

\* C8 witness: the first length of the third band.
C8_Witness == call.routine = "lj_str_hash_16_128" /\ inp.len = 16

\* C9: in lj_str_hash_128_above, iteration i of the loop reads at
\* (base of chunk 2i) + offset1 and (base of chunk 2i+1) + offset2, and the
\* last pair reads from chunks 14 and 15.
C9_ChunkPairs ==
  call.routine = "lj_str_hash_128_above" =>
    LET cs == inp.len \div 16
        p1 == random_pos[call.row][1]
        p2 == random_pos[call.row][2]
    IN  /\ \A i \in 0..6 :
             /\ call.reads[(2 * i) + 1].off = ((2 * i) * cs) + p1
             /\ call.reads[(2 * i) + 2].off = (((2 * i) + 1) * cs) + p2
        /\ call.reads[15].off >= 14 * cs
        /\ call.reads[16].off >= 14 * cs

\* C10: the row lj_str_hash_128_above reads is floor(log2(len / 16)), lies in
\* 3..27, and is a row the initialisation writes.
C10_RowIndex ==
  call.routine = "lj_str_hash_128_above" =>
    /\ call.row = FloorLog2(inp.len \div 16)
    /\ call.row \in 3..27
    /\ call.row \in WrittenRows

\* C10 witness: the longest string of the model, 2^31-1 bytes, in row 26.
C10_Witness ==
  /\ call.routine = "lj_str_hash_128_above"
  /\ inp.len = POW2_MASK(31)
  /\ call.row = 26

====
